---- MODULE Spec2Model ----
(***************************************************************************)
(* security-watchtower: the credential audit run.                          *)
(*                                                                         *)
(* One scheduled invocation of get_credentials (events/cron.rs) reads the  *)
(* Duo users and the AWS IAM users with their access keys, turns them into *)
(* Credential values, emits the last-usage metric, classifies every        *)
(* credential (Credential::inactive_action), resolves the flagged set      *)
(* (identify_inactive) and applies or dry-runs the action of every flagged *)
(* credential that is not whitelisted, counting the outcome in             *)
(* CredentialStats.                                                        *)
(*                                                                         *)
(* Spec is the whole invocation; SpecIdentify is identify_inactive alone on *)
(* the batch of a run, under thresholds of either order and sign;          *)
(* SpecClassify is Credential::inactive_action alone, last-used times to   *)
(* the tick; SpecLive is the invocation under the fairness of sequential   *)
(* code; SpecState is the invocation over provider records of any status;  *)
(* SpecExhausted is aws-scaletower's BurstBalance::is_exhausted alone.     *)
(*                                                                         *)
(* Time is counted in ticks, TicksPerDay ticks to the day; Utc::now() is   *)
(* Now for the whole invocation.  Option<T> is a sequence of length 0      *)
(* (None) or 1 (Some).                                                     *)
(***************************************************************************)
EXTENDS Integers, Sequences, FiniteSets, TLC

\* ---------------------------------------------------------------- bounds
\* The most credentials the providers hold in one run.
MaxCredentials == 3

\* The largest inactivity, in whole days, a provider record shows.
MaxDays == 2

\* The resolution of the clock.
TicksPerDay == 2

\* Utc::now() of the invocation, in ticks.
Now == (MaxDays + 2) * TicksPerDay

VARIABLES
    pc,           \* position of get_credentials
    duo_users,    \* Duo's answer to get_users
    iam_users,    \* IAM's answer to list_users
    access_keys,  \* IAM's access keys, in user order, each with its last-used look-up
    config,       \* CredentialsConfig
    credentials,  \* Vec<Credential> of the run
    inactives,    \* Vec<InactiveCredential>; credential is an index into credentials
    next_ic,      \* position of the executor loop in inactives
    stats,        \* CredentialStats
    calls,        \* provider write calls issued so far, in order
    dry_log,      \* "Would have ..." entries of dry_run, in order
    classified,   \* results of the classification step of SpecClassify
    burst_balance,  \* aws-scaletower: the BurstBalance of one volume
    burst_config,   \* aws-scaletower: BurstBalanceConfig
    exhausted       \* aws-scaletower: the answer of is_exhausted

vars == <<pc, duo_users, iam_users, access_keys, config, credentials, inactives,
          next_ic, stats, calls, dry_log, classified, burst_balance, burst_config,
          exhausted>>

None == <<>>

Some(x) == <<x>>

\* ------------------------------------------------- aws-scaletower bounds
\* The largest burst balance, burst_balance_limit, eta_limit_min and forecast
\* horizon (in minutes) of a volume.
MaxBurst == 2

\* The resolution of the forecast clock.
TicksPerMinute == 2

\* A volume without metrics, and the configuration outside aws-scaletower.
NoBurstBalance == [balance |-> None, forecast |-> None]

NoBurstBalanceConfig ==
    [use_linear_regression |-> FALSE, burst_balance_limit |-> 0, eta_limit_min |-> 0]

\* ------------------------------------------------------- Credential model
Keep == "Keep"

Disable == "Disable"

Delete == "Delete"

\* enum InactiveAction { Keep = 1, Disable = 2, Delete = 3 }
InactiveAction == [Keep |-> 1, Disable |-> 2, Delete |-> 3]

keep(action) == action = Keep

is_aws(c) == c.service = "Aws"

is_duo(c) == c.service = "Duo"

is_api_key(c) == c.kind = "ApiKey"

is_password(c) == c.kind = "Password"

is_two_fa(c) == c.kind = "TwoFA"

\* impl From<iam::User> for Credential
CredentialFromUser(user) ==
    [service |-> "Aws", id |-> user.user_id, user_name |-> user.user_name,
     kind |-> "Password", state |-> "Unknown",
     last_used |-> user.password_last_used, linked_id |-> None]

\* impl From<iam::AccessKeyLastUsed> for Credential
CredentialFromAccessKeyLastUsed(key) ==
    [service |-> "Aws", id |-> key.access_key_id, user_name |-> key.user_name,
     kind |-> "ApiKey",
     state |-> IF key.status = "Active" THEN "Enabled" ELSE "Disabled",
     last_used |-> Some(key.last_used_date), linked_id |-> Some(key.user_id)]

\* impl From<duo::User> for Credential
CredentialFromDuoUser(user) ==
    [service |-> "Duo", id |-> user.user_id,
     user_name |-> IF user.realname = None THEN "-" ELSE user.realname[1],
     kind |-> "TwoFA",
     state |-> IF user.status \in {"Active", "Bypass"} THEN "Enabled" ELSE "Disabled",
     last_used |-> user.last_login, linked_id |-> None]

\* ------------------------------------------------- Inactivity classifier
\* chrono::Duration::num_days: whole days of a duration, truncated towards zero.
num_days(ticks) ==
    IF ticks >= 0 THEN ticks \div TicksPerDay ELSE -((-ticks) \div TicksPerDay)

inactive_action_flipped(c, spec) ==
    IF c.last_used # None
    THEN LET since == num_days(Now - c.last_used[1])
         IN  IF since > spec.delete_threshold_days THEN Delete
             ELSE IF since < spec.disable_threshold_days THEN Disable
             ELSE Keep
    ELSE Keep

inactive_action_inclusive(c, spec) ==
    IF c.last_used # None
    THEN LET since == num_days(Now - c.last_used[1])
         IN  IF since >= spec.delete_threshold_days THEN Delete
             ELSE IF since >= spec.disable_threshold_days THEN Disable
             ELSE Keep
    ELSE Keep

inactive_action_disable_first(c, spec) ==
    IF c.last_used # None
    THEN LET since == num_days(Now - c.last_used[1])
         IN  IF since > spec.disable_threshold_days THEN Disable
             ELSE IF since > spec.delete_threshold_days THEN Delete
             ELSE Keep
    ELSE Keep

inactive_action_skip_disabled(c, spec) ==
    IF c.last_used # None /\ c.state # "Disabled"
    THEN LET since == num_days(Now - c.last_used[1])
         IN  IF since > spec.delete_threshold_days THEN Delete
             ELSE IF since > spec.disable_threshold_days THEN Disable
             ELSE Keep
    ELSE Keep

\* impl Inactive for Credential
inactive_action(c, spec) ==
    IF c.last_used # None
    THEN LET since == num_days(Now - c.last_used[1])
         IN  IF since > spec.delete_threshold_days THEN Delete
             ELSE IF since > spec.disable_threshold_days THEN Disable
             ELSE Keep
    ELSE Keep

\* --------------------------------------------------------- Linkage resolver
InactiveCredential(i, action) == [credential |-> i, action |-> action]

RECURSIVE duo_loop_break(_, _, _)
duo_loop_break(creds, spec, i) ==
    IF i > Len(creds) THEN <<>>
    ELSE IF ~is_duo(creds[i]) THEN duo_loop_break(creds, spec, i + 1)
    ELSE LET action == inactive_action(creds[i], spec)
         IN  IF keep(action) THEN <<>>
             ELSE <<InactiveCredential(i, action)>> \o duo_loop_break(creds, spec, i + 1)

\* identify_inactive, first loop: the Duo credentials from position i on.
RECURSIVE duo_loop(_, _, _)
duo_loop(creds, spec, i) ==
    IF i > Len(creds) THEN <<>>
    ELSE IF ~is_duo(creds[i]) THEN duo_loop(creds, spec, i + 1)
    ELSE LET action == inactive_action(creds[i], spec)
         IN  IF keep(action) THEN duo_loop(creds, spec, i + 1)
             ELSE <<InactiveCredential(i, action)>> \o duo_loop(creds, spec, i + 1)

RECURSIVE api_key_loop_push_all(_, _, _)
api_key_loop_push_all(creds, spec, i) ==
    IF i > Len(creds) THEN <<>>
    ELSE IF ~(is_aws(creds[i]) /\ is_api_key(creds[i]))
         THEN api_key_loop_push_all(creds, spec, i + 1)
    ELSE <<InactiveCredential(i, inactive_action(creds[i], spec))>>
             \o api_key_loop_push_all(creds, spec, i + 1)

\* identify_inactive, second loop: what it pushes for the AWS API keys from
\* position i on.
RECURSIVE api_key_loop(_, _, _)
api_key_loop(creds, spec, i) ==
    IF i > Len(creds) THEN <<>>
    ELSE IF ~(is_aws(creds[i]) /\ is_api_key(creds[i]))
         THEN api_key_loop(creds, spec, i + 1)
    ELSE LET action == inactive_action(creds[i], spec)
         IN  IF keep(action) THEN api_key_loop(creds, spec, i + 1)
             ELSE <<InactiveCredential(i, action)>> \o api_key_loop(creds, spec, i + 1)

\* HashMap::insert: a later insert under the same key replaces the earlier one.
insert(matrix, key, action) ==
    [k \in DOMAIN matrix \cup {key} |-> IF k = key THEN action ELSE matrix[k]]

\* HashMap::get
get(matrix, key) == IF key \in DOMAIN matrix THEN Some(matrix[key]) ELSE None

\* identify_inactive, second loop: the matrix after the first n credentials,
\* every API key's action inserted under the key's own id.
RECURSIVE api_key_matrix(_, _, _)
api_key_matrix(creds, spec, n) ==
    IF n = 0 THEN [k \in {} |-> Keep]
    ELSE LET matrix == api_key_matrix(creds, spec, n - 1)
         IN  IF is_aws(creds[n]) /\ is_api_key(creds[n])
             THEN insert(matrix, creds[n].id, inactive_action(creds[n], spec))
             ELSE matrix

match_action_keep(action, linked_action) ==
    IF action = Keep \/ linked_action = Some(Keep) THEN Keep
    ELSE IF action = Disable THEN Disable
    ELSE IF linked_action = Some(Disable) THEN Disable
    ELSE Delete

\* identify_inactive, the match of the third loop: "break" or the action pushed.
match_action(action, linked_action) ==
    IF action = Keep \/ linked_action = Some(Keep) THEN "break"
    ELSE IF action = Disable THEN Disable
    ELSE IF linked_action = Some(Disable) THEN Disable
    ELSE Delete

\* identify_inactive, third loop: the AWS passwords from position i on; the loop
\* ends at the first password whose match arm is the break.
RECURSIVE password_loop(_, _, _, _)
password_loop(creds, spec, matrix, i) ==
    IF i > Len(creds) THEN <<>>
    ELSE IF ~(is_aws(creds[i]) /\ is_password(creds[i]))
         THEN password_loop(creds, spec, matrix, i + 1)
    ELSE LET action == inactive_action(creds[i], spec)
             linked_action == get(matrix, creds[i].id)
             resolved == match_action(action, linked_action)
         IN  IF resolved = "break" THEN <<>>
             ELSE <<InactiveCredential(i, resolved)>>
                      \o password_loop(creds, spec, matrix, i + 1)

identify_inactive_batch_order(creds, spec) ==
    duo_loop(creds, spec, 1)
        \o password_loop(creds, spec, api_key_matrix(creds, spec, Len(creds)), 1)
        \o api_key_loop(creds, spec, 1)

\* impl IdentifyInactive for Vec<Credential>
identify_inactive(creds, spec) ==
    duo_loop(creds, spec, 1)
        \o api_key_loop(creds, spec, 1)
        \o password_loop(creds, spec, api_key_matrix(creds, spec, Len(creds)), 1)

\* ------------------------------------------------------ Credential sources
\* check_duo_credentials, on Duo's answer DuoResponse::Ok { response: users }
check_duo_credentials(users) ==
    [i \in 1..Len(users) |-> CredentialFromDuoUser(users[i])]

\* iam::AccessKeyLastUsed::try_from: the record's date has to parse.
AccessKeyLastUsed_try_from(access_key, value) ==
    IF value.last_used_date = None THEN None
    ELSE Some([user_name |-> access_key.user_name, user_id |-> access_key.user_id,
               access_key_id |-> access_key.access_key_id, status |-> access_key.status,
               last_used_date |-> value.last_used_date[1]])

\* iam::list_access_last_used: Some(AccessKeyLastUsed) for Ok, None for Err.
list_access_last_used(access_key) ==
    IF ~access_key.lookup.ok THEN None
    ELSE AccessKeyLastUsed_try_from(access_key, access_key.lookup)

\* check_aws_credentials, the access_keys chain from position i on: the keys of
\* the users whose listing succeeded, looked up, the failed look-ups filtered out.
RECURSIVE access_keys_last_used(_, _, _)
access_keys_last_used(users, keys, i) ==
    IF i > Len(keys) THEN <<>>
    ELSE LET listed == \E u \in 1..Len(users) :
                           users[u].user_id = keys[i].user_id /\ users[u].list_keys_ok
             res == list_access_last_used(keys[i])
         IN  (IF listed /\ res # None THEN res ELSE <<>>)
                 \o access_keys_last_used(users, keys, i + 1)

\* check_aws_credentials, on the users list_users returned
check_aws_credentials(users, keys) ==
    LET last_used == access_keys_last_used(users, keys, 1)
    IN  [i \in 1..Len(users) |-> CredentialFromUser(users[i])]
            \o [i \in 1..Len(last_used) |-> CredentialFromAccessKeyLastUsed(last_used[i])]

\* ---------------------------------------------------------- Whitelist filter
\* impl fmt::Display for Service
ServiceDisplay(service) == IF service = "Aws" THEN "aws" ELSE "duo"

CredentialKindDisplay_two_factor(kind) ==
    IF kind = "ApiKey" THEN "api_key"
    ELSE IF kind = "Password" THEN "password" ELSE "two_factor"

\* impl fmt::Display for CredentialKind
CredentialKindDisplay(kind) ==
    IF kind = "ApiKey" THEN "api_key" ELSE IF kind = "Password" THEN "password" ELSE "tfa"

\* impl WhiteListKey for Credential
whitelist_key(c) ==
    ServiceDisplay(c.service) \o ":" \o CredentialKindDisplay(c.kind) \o ":" \o c.id

\* ----------------------------------------------------------- Action executor
apply_call_password_swapped(c, action) ==
    IF is_aws(c) /\ is_api_key(c) /\ action = Disable
        THEN Some([api |-> "iam::disable_access_key", args |-> <<c.id, c.user_name>>])
    ELSE IF is_aws(c) /\ is_api_key(c) /\ action = Delete
        THEN Some([api |-> "iam::delete_access_key", args |-> <<c.id, c.user_name>>])
    ELSE IF is_aws(c) /\ is_password(c) /\ action = Disable
        THEN Some([api |-> "iam::delete_user", args |-> <<c.user_name>>])
    ELSE IF is_aws(c) /\ is_password(c) /\ action = Delete
        THEN Some([api |-> "iam::disable_user", args |-> <<c.user_name>>])
    ELSE IF is_duo(c) /\ is_two_fa(c) /\ action = Disable
        THEN Some([api |-> "duo.disable_user", args |-> <<c.id>>])
    ELSE IF is_duo(c) /\ is_two_fa(c) /\ action = Delete
        THEN Some([api |-> "duo.delete_user", args |-> <<c.id>>])
    ELSE None

apply_call_duo_by_name(c, action) ==
    IF is_aws(c) /\ is_api_key(c) /\ action = Disable
        THEN Some([api |-> "iam::disable_access_key", args |-> <<c.id, c.user_name>>])
    ELSE IF is_aws(c) /\ is_api_key(c) /\ action = Delete
        THEN Some([api |-> "iam::delete_access_key", args |-> <<c.id, c.user_name>>])
    ELSE IF is_aws(c) /\ is_password(c) /\ action = Disable
        THEN Some([api |-> "iam::disable_user", args |-> <<c.user_name>>])
    ELSE IF is_aws(c) /\ is_password(c) /\ action = Delete
        THEN Some([api |-> "iam::delete_user", args |-> <<c.user_name>>])
    ELSE IF is_duo(c) /\ is_two_fa(c) /\ action = Disable
        THEN Some([api |-> "duo.disable_user", args |-> <<c.user_name>>])
    ELSE IF is_duo(c) /\ is_two_fa(c) /\ action = Delete
        THEN Some([api |-> "duo.delete_user", args |-> <<c.user_name>>])
    ELSE None

\* ApplyInactiveAction::apply: the provider call of (service, kind, action), None
\* for the arm that makes no call.
apply_call(c, action) ==
    IF is_aws(c) /\ is_api_key(c) /\ action = Disable
        THEN Some([api |-> "iam::disable_access_key", args |-> <<c.id, c.user_name>>])
    ELSE IF is_aws(c) /\ is_api_key(c) /\ action = Delete
        THEN Some([api |-> "iam::delete_access_key", args |-> <<c.id, c.user_name>>])
    ELSE IF is_aws(c) /\ is_password(c) /\ action = Disable
        THEN Some([api |-> "iam::disable_user", args |-> <<c.user_name>>])
    ELSE IF is_aws(c) /\ is_password(c) /\ action = Delete
        THEN Some([api |-> "iam::delete_user", args |-> <<c.user_name>>])
    ELSE IF is_duo(c) /\ is_two_fa(c) /\ action = Disable
        THEN Some([api |-> "duo.disable_user", args |-> <<c.id>>])
    ELSE IF is_duo(c) /\ is_two_fa(c) /\ action = Delete
        THEN Some([api |-> "duo.delete_user", args |-> <<c.id>>])
    ELSE None

\* ApplyInactiveAction::dry_run: the line it logs, None for the arm that logs nothing.
dry_run_line(c, action) ==
    IF is_aws(c) /\ is_api_key(c) /\ action = Disable
        THEN Some("Would have disabled AWS access key " \o c.id \o " for " \o c.user_name)
    ELSE IF is_aws(c) /\ is_api_key(c) /\ action = Delete
        THEN Some("Would have deleted AWS access key " \o c.id \o " for " \o c.user_name)
    ELSE IF is_aws(c) /\ is_password(c) /\ action = Disable
        THEN Some("Would have disabled AWS user " \o c.user_name)
    ELSE IF is_aws(c) /\ is_password(c) /\ action = Delete
        THEN Some("Would have deleted AWS user " \o c.user_name)
    ELSE IF is_duo(c) /\ is_two_fa(c) /\ action = Disable
        THEN Some("Would have disabled DUO user " \o c.user_name)
    ELSE IF is_duo(c) /\ is_two_fa(c) /\ action = Delete
        THEN Some("Would have deleted DUO user " \o c.user_name)
    ELSE None

\* get_credentials: the InactiveSpec it builds from the configuration.
InactiveSpec(cfg) ==
    [disable_threshold_days |-> cfg.disable_threshold_days,
     delete_threshold_days |-> cfg.delete_threshold_days]

CredentialStats_kept_all(creds, ics) ==
    [total |-> Len(creds), kept |-> Len(creds),
     disabled |-> 0, deleted |-> 0, failed |-> 0]

\* get_credentials: the statistics before the executor loop.
CredentialStats(creds, ics) ==
    [total |-> Len(creds), kept |-> Len(creds) - Len(ics),
     disabled |-> 0, deleted |-> 0, failed |-> 0]

\* ------------------------------------------------------- Provider answers
\* Last-used times the providers report: whole days before Now.
Timestamps == {Now - d * TicksPerDay : d \in 0..MaxDays}

OptTimestamps == {None} \cup {Some(t) : t \in Timestamps}

\* GetAccessKeyLastUsed for one key: the call fails, or it answers with or
\* without a date that parses.
Lookups ==
    {[ok |-> FALSE, last_used_date |-> None]}
        \cup {[ok |-> TRUE, last_used_date |-> d] : d \in OptTimestamps}

DuoUsers(n) ==
    {[i \in 1..n |-> [user_id |-> "DU" \o ToString(i),
                      realname |-> Some("duo-user-" \o ToString(i)),
                      status |-> "Active",
                      last_login |-> f[i]]] : f \in [1..n -> OptTimestamps]}

IamUsers(n) ==
    {[i \in 1..n |-> [user_id |-> "AIDA" \o ToString(i),
                      user_name |-> "iam-user-" \o ToString(i),
                      password_last_used |-> f[i].password_last_used,
                      list_keys_ok |-> f[i].list_keys_ok]] :
        f \in [1..n -> [password_last_used : OptTimestamps, list_keys_ok : BOOLEAN]]}

\* n access keys of nu users, in user order.
AccessKeys(n, nu) ==
    {[j \in 1..n |-> [access_key_id |-> "AKIA" \o ToString(j),
                      user_id |-> "AIDA" \o ToString(f[j].owner),
                      user_name |-> "iam-user-" \o ToString(f[j].owner),
                      status |-> "Active",
                      lookup |-> f[j].lookup]] :
        f \in {g \in [1..n -> [owner : 1..nu, lookup : Lookups]] :
                  \A j \in 1..n : j > 1 => g[j - 1].owner <= g[j].owner}}

\* ListAccessKeys fails only for users that hold keys: without keys the failed
\* listing and the empty one give the same batch.
ListingFailsOnlyWithKeys(users, keys) ==
    \A u \in 1..Len(users) :
        ~users[u].list_keys_ok
            => \E j \in 1..Len(keys) : keys[j].user_id = users[u].user_id

\* The whitelists of a run: none, one key in each credential's rendering, and
\* the Duo key with the kind spelled out.
Whitelists ==
    {{}, {"duo:tfa:DU1", "aws:password:AIDA1", "aws:api_key:AKIA1"},
     {"duo:two_factor:DU1"}}

\* <<disable_threshold_days, delete_threshold_days>> of the configurations of a
\* run: disable < delete, and delete < disable.
Thresholds == {<<0, 1>>, <<1, 0>>}

Configs ==
    {[disable_threshold_days |-> t[1], delete_threshold_days |-> t[2],
      actions_enabled |-> e, whitelist |-> w] :
        t \in Thresholds, e \in BOOLEAN, w \in Whitelists}

NoStats == [total |-> 0, kept |-> 0, disabled |-> 0, deleted |-> 0, failed |-> 0]

\* --------------------------------------------------------------- The run
Init ==
    /\ pc = "start"
    /\ \E nd \in 0..MaxCredentials, nu \in 0..MaxCredentials, nk \in 0..MaxCredentials :
          /\ nd + nu + nk <= MaxCredentials
          /\ nk > 0 => nu > 0
          /\ duo_users \in DuoUsers(nd)
          /\ iam_users \in IamUsers(nu)
          /\ access_keys \in AccessKeys(nk, nu)
          /\ ListingFailsOnlyWithKeys(iam_users, access_keys)
    /\ config \in Configs
    /\ credentials = <<>>
    /\ inactives = <<>>
    /\ next_ic = 1
    /\ stats = NoStats
    /\ calls = <<>>
    /\ dry_log = <<>>
    /\ classified = <<>>
    /\ burst_balance = NoBurstBalance
    /\ burst_config = NoBurstBalanceConfig
    /\ exhausted = FALSE

\* get_credentials, lines 117-122: both sources are read; a source that fails
\* panics the run (expect).
CheckCredentials ==
    /\ pc = "start"
    /\ \E duo_ok \in BOOLEAN, aws_ok \in BOOLEAN :
          IF duo_ok /\ aws_ok
          THEN /\ credentials' = check_duo_credentials(duo_users)
                                     \o check_aws_credentials(iam_users, access_keys)
               /\ pc' = "loaded"
          ELSE /\ pc' = "panicked"
               /\ UNCHANGED credentials
    /\ UNCHANGED <<duo_users, iam_users, access_keys, config, inactives, next_ic,
                   stats, calls, dry_log, classified,
                   burst_balance, burst_config, exhausted>>

EmitLastUsed_after_identify ==
    /\ pc = "loaded"
    /\ \E emit_ok \in (IF credentials = <<>> THEN {TRUE} ELSE BOOLEAN) :
          /\ pc' = IF emit_ok THEN "emitted" ELSE "failed"
          /\ inactives' = IF emit_ok THEN inactives
                          ELSE identify_inactive(credentials, InactiveSpec(config))
    /\ UNCHANGED <<duo_users, iam_users, access_keys, config, credentials,
                   next_ic, stats, calls, dry_log, classified,
                   burst_balance, burst_config, exhausted>>

\* get_credentials, line 124: bosun_emit_credential_last_used emits one datum
\* per credential; the first emit that fails returns the error.
EmitLastUsed ==
    /\ pc = "loaded"
    /\ \E emit_ok \in (IF credentials = <<>> THEN {TRUE} ELSE BOOLEAN) :
          pc' = IF emit_ok THEN "emitted" ELSE "failed"
    /\ UNCHANGED <<duo_users, iam_users, access_keys, config, credentials, inactives,
                   next_ic, stats, calls, dry_log, classified,
                   burst_balance, burst_config, exhausted>>

\* get_credentials, lines 126-148: the spec is built, the flagged set identified
\* and the statistics set up.
IdentifyInactive ==
    /\ pc = "emitted"
    /\ inactives' = identify_inactive(credentials, InactiveSpec(config))
    /\ stats' = CredentialStats(credentials, inactives')
    /\ next_ic' = 1
    /\ pc' = "executing"
    /\ UNCHANGED <<duo_users, iam_users, access_keys, config, credentials, calls,
                   dry_log, classified,
                   burst_balance, burst_config, exhausted>>

\* get_credentials, lines 151-159: a whitelisted credential is passed over.
SkipWhitelisted ==
    /\ pc = "executing"
    /\ next_ic <= Len(inactives)
    /\ whitelist_key(credentials[inactives[next_ic].credential]) \in config.whitelist
    /\ next_ic' = next_ic + 1
    /\ UNCHANGED <<pc, duo_users, iam_users, access_keys, config, credentials,
                   inactives, stats, calls, dry_log, classified,
                   burst_balance, burst_config, exhausted>>

Apply_failure_uncounted ==
    /\ pc = "executing"
    /\ next_ic <= Len(inactives)
    /\ LET ic == inactives[next_ic]
           c == credentials[ic.credential]
           call == apply_call(c, ic.action)
       IN  /\ whitelist_key(c) \notin config.whitelist
           /\ config.actions_enabled
           /\ \E ok \in (IF call = None THEN {TRUE} ELSE BOOLEAN) :
                 /\ calls' = IF call = None THEN calls
                             ELSE Append(calls, [api |-> call[1].api, args |-> call[1].args,
                                                 ic |-> next_ic, ok |-> ok])
                 /\ stats' = IF ic.action = Disable
                                  THEN [stats EXCEPT !.disabled = @ + 1]
                             ELSE IF ic.action = Delete
                                  THEN [stats EXCEPT !.deleted = @ + 1]
                             ELSE stats
    /\ next_ic' = next_ic + 1
    /\ UNCHANGED <<pc, duo_users, iam_users, access_keys, config, credentials,
                   inactives, dry_log, classified,
                   burst_balance, burst_config, exhausted>>

Apply_abort_on_failure ==
    /\ pc = "executing"
    /\ next_ic <= Len(inactives)
    /\ LET ic == inactives[next_ic]
           c == credentials[ic.credential]
           call == apply_call(c, ic.action)
       IN  /\ whitelist_key(c) \notin config.whitelist
           /\ config.actions_enabled
           /\ \E ok \in (IF call = None THEN {TRUE} ELSE BOOLEAN) :
                 /\ calls' = IF call = None THEN calls
                             ELSE Append(calls, [api |-> call[1].api, args |-> call[1].args,
                                                 ic |-> next_ic, ok |-> ok])
                 /\ stats' = IF ~ok THEN [stats EXCEPT !.failed = @ + 1]
                             ELSE IF ic.action = Disable
                                  THEN [stats EXCEPT !.disabled = @ + 1]
                             ELSE IF ic.action = Delete
                                  THEN [stats EXCEPT !.deleted = @ + 1]
                             ELSE stats
                 /\ pc' = IF ok THEN pc ELSE "failed"
    /\ next_ic' = next_ic + 1
    /\ UNCHANGED <<duo_users, iam_users, access_keys, config, credentials,
                   inactives, dry_log, classified,
                   burst_balance, burst_config, exhausted>>

Apply_whitelist_unchecked ==
    /\ pc = "executing"
    /\ next_ic <= Len(inactives)
    /\ LET ic == inactives[next_ic]
           c == credentials[ic.credential]
           call == apply_call(c, ic.action)
       IN  /\ config.actions_enabled
           /\ \E ok \in (IF call = None THEN {TRUE} ELSE BOOLEAN) :
                 /\ calls' = IF call = None THEN calls
                             ELSE Append(calls, [api |-> call[1].api, args |-> call[1].args,
                                                 ic |-> next_ic, ok |-> ok])
                 /\ stats' = IF ~ok THEN [stats EXCEPT !.failed = @ + 1]
                             ELSE IF ic.action = Disable
                                  THEN [stats EXCEPT !.disabled = @ + 1]
                             ELSE IF ic.action = Delete
                                  THEN [stats EXCEPT !.deleted = @ + 1]
                             ELSE stats
    /\ next_ic' = next_ic + 1
    /\ UNCHANGED <<pc, duo_users, iam_users, access_keys, config, credentials,
                   inactives, dry_log, classified,
                   burst_balance, burst_config, exhausted>>

\* get_credentials, lines 160-184: the action is applied and its outcome counted.
Apply ==
    /\ pc = "executing"
    /\ next_ic <= Len(inactives)
    /\ LET ic == inactives[next_ic]
           c == credentials[ic.credential]
           call == apply_call(c, ic.action)
       IN  /\ whitelist_key(c) \notin config.whitelist
           /\ config.actions_enabled
           /\ \E ok \in (IF call = None THEN {TRUE} ELSE BOOLEAN) :
                 /\ calls' = IF call = None THEN calls
                             ELSE Append(calls, [api |-> call[1].api, args |-> call[1].args,
                                                 ic |-> next_ic, ok |-> ok])
                 /\ stats' = IF ~ok THEN [stats EXCEPT !.failed = @ + 1]
                             ELSE IF ic.action = Disable
                                  THEN [stats EXCEPT !.disabled = @ + 1]
                             ELSE IF ic.action = Delete
                                  THEN [stats EXCEPT !.deleted = @ + 1]
                             ELSE stats
    /\ next_ic' = next_ic + 1
    /\ UNCHANGED <<pc, duo_users, iam_users, access_keys, config, credentials,
                   inactives, dry_log, classified,
                   burst_balance, burst_config, exhausted>>

DryRun_calls_provider ==
    /\ pc = "executing"
    /\ next_ic <= Len(inactives)
    /\ LET ic == inactives[next_ic]
           c == credentials[ic.credential]
           line == dry_run_line(c, ic.action)
           call == apply_call(c, ic.action)
       IN  /\ whitelist_key(c) \notin config.whitelist
           /\ ~config.actions_enabled
           /\ dry_log' = IF line = None THEN dry_log
                         ELSE Append(dry_log, [line |-> line[1], ic |-> next_ic])
           /\ calls' = IF call = None THEN calls
                       ELSE Append(calls, [api |-> call[1].api, args |-> call[1].args,
                                           ic |-> next_ic, ok |-> TRUE])
    /\ next_ic' = next_ic + 1
    /\ UNCHANGED <<pc, duo_users, iam_users, access_keys, config, credentials,
                   inactives, stats, classified,
                   burst_balance, burst_config, exhausted>>

\* get_credentials, lines 185-187: the action is only logged.
DryRun ==
    /\ pc = "executing"
    /\ next_ic <= Len(inactives)
    /\ LET ic == inactives[next_ic]
           c == credentials[ic.credential]
           line == dry_run_line(c, ic.action)
       IN  /\ whitelist_key(c) \notin config.whitelist
           /\ ~config.actions_enabled
           /\ dry_log' = IF line = None THEN dry_log
                         ELSE Append(dry_log, [line |-> line[1], ic |-> next_ic])
    /\ next_ic' = next_ic + 1
    /\ UNCHANGED <<pc, duo_users, iam_users, access_keys, config, credentials,
                   inactives, stats, calls, classified,
                   burst_balance, burst_config, exhausted>>

Return_err ==
    /\ pc = "executing"
    /\ next_ic > Len(inactives)
    /\ pc' = "failed"
    /\ UNCHANGED <<duo_users, iam_users, access_keys, config, credentials, inactives,
                   next_ic, stats, calls, dry_log, classified,
                   burst_balance, burst_config, exhausted>>

\* get_credentials, line 193: Ok(stats)
Return ==
    /\ pc = "executing"
    /\ next_ic > Len(inactives)
    /\ pc' = "returned"
    /\ UNCHANGED <<duo_users, iam_users, access_keys, config, credentials, inactives,
                   next_ic, stats, calls, dry_log, classified,
                   burst_balance, burst_config, exhausted>>

Next ==
    \/ CheckCredentials
    \/ EmitLastUsed
    \/ IdentifyInactive
    \/ SkipWhitelisted
    \/ Apply
    \/ DryRun
    \/ Return

Spec == Init /\ [][Next]_vars

\* Last-used times that give each classification: today, a day ago, and as
\* long ago as a record shows.
LiveTimestamps == {Now, Now - TicksPerDay, Now - MaxDays * TicksPerDay}

\* The runs whose sources answer for every user and key, each record never
\* used or used at one of LiveTimestamps.
InitLive ==
    /\ Init
    /\ \A i \in 1..Len(duo_users) :
          duo_users[i].last_login \in {None} \cup {Some(t) : t \in LiveTimestamps}
    /\ \A i \in 1..Len(iam_users) :
          /\ iam_users[i].password_last_used \in {None} \cup {Some(t) : t \in LiveTimestamps}
          /\ iam_users[i].list_keys_ok
    /\ \A j \in 1..Len(access_keys) :
          /\ access_keys[j].lookup.ok
          /\ access_keys[j].lookup.last_used_date \in {Some(t) : t \in LiveTimestamps}

\* get_credentials is straight-line code and loops over finite vectors, and
\* every provider and metric call returns: a run that can take a step takes it.
SpecLive == InitLive /\ [][Next]_vars /\ WF_vars(Next)

\* ------------------------------------- The run over credentials of any state
\* duo::UserStatus values that give each CredentialState.
DuoStatuses == {"Active", "Disabled"}

\* iam::AccessKeyMetadataStatus
KeyStatuses == {"Active", "Inactive"}

\* The runs of InitLive's records, each Duo user and access key in any status.
InitState ==
    /\ pc = "start"
    /\ \E nd \in 0..MaxCredentials, nu \in 0..MaxCredentials, nk \in 0..MaxCredentials :
          /\ nd + nu + nk <= MaxCredentials
          /\ nk > 0 => nu > 0
          /\ \E d \in DuoUsers(nd), sd \in [1..nd -> DuoStatuses] :
                /\ \A i \in 1..nd :
                      d[i].last_login \in {None} \cup {Some(t) : t \in LiveTimestamps}
                /\ duo_users = [i \in 1..nd |-> [d[i] EXCEPT !.status = sd[i]]]
          /\ iam_users \in IamUsers(nu)
          /\ \A i \in 1..nu :
                /\ iam_users[i].password_last_used
                       \in {None} \cup {Some(t) : t \in LiveTimestamps}
                /\ iam_users[i].list_keys_ok
          /\ \E k \in AccessKeys(nk, nu), sk \in [1..nk -> KeyStatuses] :
                /\ \A j \in 1..nk :
                      /\ k[j].lookup.ok
                      /\ k[j].lookup.last_used_date \in {Some(t) : t \in LiveTimestamps}
                /\ access_keys = [j \in 1..nk |-> [k[j] EXCEPT !.status = sk[j]]]
    /\ config \in Configs
    /\ credentials = <<>>
    /\ inactives = <<>>
    /\ next_ic = 1
    /\ stats = NoStats
    /\ calls = <<>>
    /\ dry_log = <<>>
    /\ classified = <<>>
    /\ burst_balance = NoBurstBalance
    /\ burst_config = NoBurstBalanceConfig
    /\ exhausted = FALSE

SpecState == InitState /\ [][Next]_vars

\* ------------------------------------------- identify_inactive on its own
\* The batch of a run whose sources answered, under thresholds of either order
\* and sign.
InitIdentify ==
    /\ pc = "identify"
    /\ \E nd \in 0..MaxCredentials, nu \in 0..MaxCredentials, nk \in 0..MaxCredentials :
          /\ nd + nu + nk <= MaxCredentials
          /\ nk > 0 => nu > 0
          /\ duo_users \in DuoUsers(nd)
          /\ iam_users \in IamUsers(nu)
          /\ access_keys \in AccessKeys(nk, nu)
          /\ ListingFailsOnlyWithKeys(iam_users, access_keys)
    /\ credentials = check_duo_credentials(duo_users)
                         \o check_aws_credentials(iam_users, access_keys)
    /\ \E dis \in -1..MaxDays, del \in -1..MaxDays :
          config = [disable_threshold_days |-> dis, delete_threshold_days |-> del,
                    actions_enabled |-> FALSE, whitelist |-> {}]
    /\ inactives = <<>>
    /\ next_ic = 1
    /\ stats = NoStats
    /\ calls = <<>>
    /\ dry_log = <<>>
    /\ classified = <<>>
    /\ burst_balance = NoBurstBalance
    /\ burst_config = NoBurstBalanceConfig
    /\ exhausted = FALSE

\* credentials.identify_inactive(&inactive_spec)
Identify ==
    /\ pc = "identify"
    /\ inactives' = identify_inactive(credentials, InactiveSpec(config))
    /\ pc' = "identified"
    /\ UNCHANGED <<duo_users, iam_users, access_keys, config, credentials, next_ic,
                   stats, calls, dry_log, classified,
                   burst_balance, burst_config, exhausted>>

NextIdentify == Identify

SpecIdentify == InitIdentify /\ [][NextIdentify]_vars

\* ------------------------------------------------ The classifier on its own
\* Last-used times to the tick, from a day ahead of Now to past the largest
\* threshold.
FineTimestamps == (Now - (MaxDays + 2) * TicksPerDay + 1)..(Now + TicksPerDay)

OptFineTimestamps == {None} \cup {Some(t) : t \in FineTimestamps}

\* Two credentials under one InactiveSpec, thresholds of either order and sign.
InitClassify ==
    /\ pc = "classify"
    /\ \E a \in OptFineTimestamps, b \in OptFineTimestamps :
          credentials =
              <<CredentialFromUser([user_id |-> "AIDA1", user_name |-> "iam-user-1",
                                    password_last_used |-> a]),
                CredentialFromDuoUser([user_id |-> "DU1", realname |-> None,
                                       status |-> "Active", last_login |-> b])>>
    /\ \E dis \in -1..MaxDays, del \in -1..MaxDays :
          config = [disable_threshold_days |-> dis, delete_threshold_days |-> del,
                    actions_enabled |-> FALSE, whitelist |-> {}]
    /\ duo_users = <<>>
    /\ iam_users = <<>>
    /\ access_keys = <<>>
    /\ inactives = <<>>
    /\ next_ic = 1
    /\ stats = NoStats
    /\ calls = <<>>
    /\ dry_log = <<>>
    /\ classified = <<>>
    /\ burst_balance = NoBurstBalance
    /\ burst_config = NoBurstBalanceConfig
    /\ exhausted = FALSE

\* Credential::inactive_action applied to each of the credentials.
Classify ==
    /\ pc = "classify"
    /\ classified' = [i \in 1..Len(credentials) |->
                         inactive_action(credentials[i], InactiveSpec(config))]
    /\ pc' = "classified"
    /\ UNCHANGED <<duo_users, iam_users, access_keys, config, credentials, inactives,
                   next_ic, stats, calls, dry_log, burst_balance, burst_config,
                   exhausted>>

NextClassify == Classify

SpecClassify == InitClassify /\ [][NextClassify]_vars

\* ------------------------------------------ aws-scaletower: is_exhausted
\* chrono::Duration::num_minutes: whole minutes of a duration, truncated
\* towards zero.
num_minutes(ticks) ==
    IF ticks >= 0 THEN ticks \div TicksPerMinute ELSE -((-ticks) \div TicksPerMinute)

is_exhausted_forecast_always(bb, cfg) ==
    LET balance == IF bb.balance # None THEN bb.balance[1] <= cfg.burst_balance_limit
                   ELSE FALSE
        eta == IF bb.forecast # None
               THEN LET time_left == num_minutes(bb.forecast[1] - Now)
                    IN  time_left <= cfg.eta_limit_min
               ELSE FALSE
    IN  balance \/ eta

\* impl IsExhausted for BurstBalance
is_exhausted(bb, cfg) ==
    LET balance == IF bb.balance # None THEN bb.balance[1] <= cfg.burst_balance_limit
                   ELSE FALSE
        eta == IF bb.forecast # None
               THEN LET time_left == num_minutes(bb.forecast[1] - Now)
                    IN  cfg.use_linear_regression /\ time_left <= cfg.eta_limit_min
               ELSE FALSE
    IN  balance \/ eta

\* Forecasts to the tick, from a minute before Now to a minute past the
\* largest limit.
Forecasts == (Now - TicksPerMinute)..(Now + (MaxBurst + 2) * TicksPerMinute - 1)

\* struct BurstBalance, the fields is_exhausted reads.
BurstBalances ==
    [balance : {None} \cup {Some(b) : b \in 0..MaxBurst},
     forecast : {None} \cup {Some(t) : t \in Forecasts}]

\* struct BurstBalanceConfig, the fields is_exhausted reads.
BurstBalanceConfigs ==
    [use_linear_regression : BOOLEAN, burst_balance_limit : 0..MaxBurst,
     eta_limit_min : 0..MaxBurst]

InitExhausted ==
    /\ pc = "exhaust"
    /\ burst_balance \in BurstBalances
    /\ burst_config \in BurstBalanceConfigs
    /\ exhausted = FALSE
    /\ duo_users = <<>>
    /\ iam_users = <<>>
    /\ access_keys = <<>>
    /\ config = [disable_threshold_days |-> 0, delete_threshold_days |-> 1,
                 actions_enabled |-> FALSE, whitelist |-> {}]
    /\ credentials = <<>>
    /\ inactives = <<>>
    /\ next_ic = 1
    /\ stats = NoStats
    /\ calls = <<>>
    /\ dry_log = <<>>
    /\ classified = <<>>

\* burst_balance.is_exhausted(&config)
IsExhausted ==
    /\ pc = "exhaust"
    /\ exhausted' = is_exhausted(burst_balance, burst_config)
    /\ pc' = "exhausted"
    /\ UNCHANGED <<duo_users, iam_users, access_keys, config, credentials, inactives,
                   next_ic, stats, calls, dry_log, classified, burst_balance,
                   burst_config>>

NextExhausted == IsExhausted

SpecExhausted == InitExhausted /\ [][NextExhausted]_vars

\* ------------------------------------------------------------- Properties
\* identify_inactive has run in this invocation.
Identified == pc \in {"executing", "returned", "identified"}

Own(i) == inactive_action(credentials[i], InactiveSpec(config))

Severity(action) == InactiveAction[action]

\* The positions of inactives that hold credential i.
Entries(i) == {k \in 1..Len(inactives) : inactives[k].credential = i}

\* The resolved action of credential i: that of its entry, Keep without one.
Resolved(i) ==
    IF Entries(i) = {} THEN Keep ELSE inactives[CHOOSE k \in Entries(i) : TRUE].action

Passwords == {i \in 1..Len(credentials) : is_aws(credentials[i]) /\ is_password(credentials[i])}

ApiKeys == {i \in 1..Len(credentials) : is_aws(credentials[i]) /\ is_api_key(credentials[i])}

TwoFAs == {i \in 1..Len(credentials) : is_duo(credentials[i])}

\* The API keys of the batch that link to password p.
LinkedKeys(p) == {k \in ApiKeys : credentials[k].linked_id = Some(credentials[p].id)}

LessSevere(a, b) == IF Severity(a) <= Severity(b) THEN a ELSE b

\* The thresholds satisfy delete_threshold_days > disable_threshold_days >= 0.
WellFormed ==
    /\ config.disable_threshold_days >= 0
    /\ config.delete_threshold_days > config.disable_threshold_days

\* C1: under well-formed thresholds, for a Password P and an ApiKey K with K.linked_id = P.id, if the own
\* classification of P or of K is Keep, identify_inactive emits no
\* InactiveCredential for P.
C1_KeepDominance ==
    (Identified /\ WellFormed) =>
        \A p \in Passwords : \A k \in LinkedKeys(p) :
            (Own(p) = Keep \/ Own(k) = Keep) => Entries(p) = {}

\* C2: under well-formed thresholds, a Password with exactly one linked ApiKey, neither classified Keep, is
\* emitted with the less severe of the two classifications.
C2_LessSevereOfPair ==
    (Identified /\ WellFormed) =>
        \A p \in Passwords : \A k \in LinkedKeys(p) :
            (LinkedKeys(p) = {k} /\ Own(p) # Keep /\ Own(k) # Keep)
                => /\ Cardinality(Entries(p)) = 1
                   /\ Resolved(p) = LessSevere(Own(p), Own(k))

\* C3: under well-formed thresholds, a Password no ApiKey of the batch links to is resolved to its own
\* classification, whatever else the batch holds: emitted with Disable or Delete
\* exactly when that is its own classification.
C3_UnlinkedPasswordOwnAction ==
    (Identified /\ WellFormed) =>
        \A p \in Passwords :
            LinkedKeys(p) = {}
                => /\ Resolved(p) = Own(p)
                   /\ Cardinality(Entries(p)) = IF Own(p) = Keep THEN 0 ELSE 1

\* The linked action the third loop of identify_inactive reads for password p.
LinkedAction(p) ==
    get(api_key_matrix(credentials, InactiveSpec(config), Len(credentials)),
        credentials[p].id)

\* C4: under well-formed thresholds, when several ApiKeys link to one identity, the linked action that enters
\* the Password combination is the most severe classification among those keys.
C4_StrongestLinkedAction ==
    (Identified /\ WellFormed) =>
        \A p \in Passwords :
            Cardinality(LinkedKeys(p)) >= 2
                => \E k \in LinkedKeys(p) :
                      /\ LinkedAction(p) = Some(Own(k))
                      /\ \A j \in LinkedKeys(p) : Severity(Own(j)) <= Severity(Own(k))

\* C5: every AWS ApiKey is emitted with exactly its own classification when that
\* is Disable or Delete, and not emitted when it is Keep, whatever its owner's
\* password, the owner's other keys and the rest of the batch are.
C5_ApiKeyIndependent ==
    Identified =>
        \A k \in ApiKeys :
            /\ Resolved(k) = Own(k)
            /\ Cardinality(Entries(k)) = IF Own(k) = Keep THEN 0 ELSE 1

C5_Witness ==
    /\ Identified
    /\ \E k \in ApiKeys, j \in ApiKeys, p \in Passwords :
          /\ k # j
          /\ {k, j} \subseteq LinkedKeys(p)
          /\ Own(p) = Keep
          /\ Own(k) = Delete /\ Resolved(k) = Delete
          /\ Own(j) = Keep /\ Entries(j) = {}

\* creds without its element at position j.
Without(creds, j) == [i \in 1..(Len(creds) - 1) |-> IF i < j THEN creds[i] ELSE creds[i + 1]]

\* The action identify_inactive resolves for the credential at position i of
\* creds: that of its entry in the result, Keep without one.
ResolvedIn(creds, i) ==
    LET ics == identify_inactive(creds, InactiveSpec(config))
        at == {k \in 1..Len(ics) : ics[k].credential = i}
    IN  IF at = {} THEN Keep ELSE ics[CHOOSE k \in at : TRUE].action

\* C6: every Duo TwoFactor credential is resolved to its own classification, in
\* one entry at most, and to the same action in the batch without any one of the
\* other credentials and in the batch of that credential alone.
C6_TwoFaIndependent ==
    Identified =>
        \A d \in TwoFAs :
            /\ Resolved(d) = Own(d)
            /\ Cardinality(Entries(d)) = IF Own(d) = Keep THEN 0 ELSE 1
            /\ ResolvedIn(<<credentials[d]>>, 1) = Resolved(d)
            /\ \A j \in 1..Len(credentials) \ {d} :
                  ResolvedIn(Without(credentials, j), IF j < d THEN d - 1 ELSE d)
                      = Resolved(d)

C6_Witness ==
    /\ Identified
    /\ \E d \in TwoFAs, e \in TwoFAs, p \in Passwords :
          /\ e < d
          /\ Own(e) = Keep
          /\ Own(d) = Disable /\ Resolved(d) = Disable
          /\ Own(p) = Delete

\* Whole days of a duration of e ticks, towards zero, by its defining inequalities.
WholeDays(e) ==
    CHOOSE d \in -(MaxDays + 3)..(MaxDays + 3) :
        IF e >= 0
        THEN d * TicksPerDay <= e /\ e < (d + 1) * TicksPerDay
        ELSE (d - 1) * TicksPerDay < e /\ e <= d * TicksPerDay

\* The classification the contract gives last_used under the thresholds.
Classification(last_used, disable_days, delete_days) ==
    IF last_used = None THEN Keep
    ELSE LET since == WholeDays(Now - last_used[1])
         IN  CASE since > delete_days -> Delete
               [] since <= delete_days /\ since > disable_days -> Disable
               [] OTHER -> Keep

\* C7: inactive_action is the contract's classification: Keep without last_used;
\* else Delete for since > delete_threshold_days, else Disable for
\* since > disable_threshold_days, else Keep, with strict comparisons; it always
\* yields one of the three actions.
C7_ClassifyIsReference ==
    pc = "classified" =>
        \A i \in 1..Len(credentials) :
            /\ classified[i] \in {Keep, Disable, Delete}
            /\ classified[i] = Classification(credentials[i].last_used,
                                              config.disable_threshold_days,
                                              config.delete_threshold_days)

C7_Witness ==
    /\ pc = "classified"
    /\ WellFormed
    /\ credentials[1].last_used # None
    /\ credentials[2].last_used # None
    /\ WholeDays(Now - credentials[1].last_used[1]) = config.delete_threshold_days + 1
    /\ classified[1] = Delete
    /\ WholeDays(Now - credentials[2].last_used[1]) = config.disable_threshold_days
    /\ classified[2] = Keep

\* C8: under one InactiveSpec, a credential unused for at least as many days as
\* another is classified at least as severely, in the order Keep < Disable < Delete.
C8_Monotonic ==
    pc = "classified" =>
        \A a \in 1..Len(credentials), b \in 1..Len(credentials) :
            (/\ credentials[a].last_used # None
             /\ credentials[b].last_used # None
             /\ WholeDays(Now - credentials[a].last_used[1])
                    >= WholeDays(Now - credentials[b].last_used[1]))
                => Severity(classified[a]) >= Severity(classified[b])

C8_Witness ==
    /\ pc = "classified"
    /\ credentials[1].last_used # None
    /\ credentials[2].last_used # None
    /\ WholeDays(Now - credentials[1].last_used[1])
           > WholeDays(Now - credentials[2].last_used[1])
    /\ classified[1] = Delete
    /\ classified[2] = Disable

\* C9: no classification and no provider operation runs under thresholds with
\* delete_threshold_days <= disable_threshold_days or a negative disable
\* threshold: such a configuration is rejected when the InactiveSpec is built.
C9_MisconfigurationRejected ==
    (Identified \/ calls # <<>>) => WellFormed

\* A provider call or dry-run line is that of an entry of inactives whose action
\* is Disable or Delete.
OfFlaggedEntry(ic) ==
    /\ ic \in 1..Len(inactives)
    /\ inactives[ic].action \in {Disable, Delete}
    /\ Resolved(inactives[ic].credential) # Keep

\* C10: every InactiveCredential identify_inactive produces has action Disable or
\* Delete, and every provider call and every dry-run line is that of such an
\* entry, so none is produced for a credential resolved to Keep.
C10_NeverKeep ==
    /\ \A k \in 1..Len(inactives) : inactives[k].action \in {Disable, Delete}
    /\ \A n \in 1..Len(calls) :
          /\ OfFlaggedEntry(calls[n].ic)
          /\ Some([api |-> calls[n].api, args |-> calls[n].args])
                 = apply_call(credentials[inactives[calls[n].ic].credential],
                              inactives[calls[n].ic].action)
    /\ \A n \in 1..Len(dry_log) :
          /\ OfFlaggedEntry(dry_log[n].ic)
          /\ Some(dry_log[n].line)
                 = dry_run_line(credentials[inactives[dry_log[n].ic].credential],
                                inactives[dry_log[n].ic].action)

C10_Witness ==
    /\ pc = "returned"
    /\ calls # <<>>
    /\ \E i \in 1..Len(credentials), j \in 1..Len(credentials) :
          /\ Own(i) = Keep /\ Entries(i) = {}
          /\ Entries(j) # {}

\* The executor loop is running or has run.
Executing == pc \in {"executing", "returned"}

\* The whitelist key of credential c, written out per service and kind.
KeyOf(c) ==
    CASE c.service = "Duo" /\ c.kind = "TwoFA" -> "duo:tfa:" \o c.id
      [] c.service = "Aws" /\ c.kind = "Password" -> "aws:password:" \o c.id
      [] c.service = "Aws" /\ c.kind = "ApiKey" -> "aws:api_key:" \o c.id

\* Entry k of inactives is of a whitelisted credential.
Whitelisted(k) == KeyOf(credentials[inactives[k].credential]) \in config.whitelist

\* The provider calls and the dry-run lines of entry k of inactives.
CallsOf(k) == {n \in 1..Len(calls) : calls[n].ic = k}

LinesOf(k) == {n \in 1..Len(dry_log) : dry_log[n].ic = k}

\* C11: the whitelist only filters: of the flagged credentials the executor has
\* passed, exactly those whose key is not in the whitelist have a provider call
\* (apply mode) or a would-have line (dry-run mode); the flagged set and its
\* actions are those identify_inactive gives the batch, whatever the whitelist.
C11_WhitelistIsFilter ==
    Executing =>
        /\ inactives = identify_inactive(credentials,
                                         [disable_threshold_days |-> config.disable_threshold_days,
                                          delete_threshold_days |-> config.delete_threshold_days])
        /\ \A k \in 1..Len(inactives) :
              /\ (k < next_ic /\ ~Whitelisted(k) /\ config.actions_enabled)
                    => Cardinality(CallsOf(k)) = 1 /\ LinesOf(k) = {}
              /\ (k < next_ic /\ ~Whitelisted(k) /\ ~config.actions_enabled)
                    => Cardinality(LinesOf(k)) = 1 /\ CallsOf(k) = {}
              /\ (k >= next_ic \/ Whitelisted(k)) => CallsOf(k) = {} /\ LinesOf(k) = {}

C11_Witness ==
    /\ pc = "returned"
    /\ \E k \in 1..Len(inactives), j \in 1..Len(inactives) :
          /\ Whitelisted(k) /\ CallsOf(k) = {}
          /\ ~Whitelisted(j) /\ CallsOf(j) # {}

\* C12: after a run, kept is the number of credentials resolved to Keep plus the
\* number of flagged credentials passed over as whitelisted.
C12_WhitelistedCountedKept ==
    pc = "returned" =>
        stats.kept = Cardinality({i \in 1..Len(credentials) : Entries(i) = {}})
                         + Cardinality({k \in 1..Len(inactives) : Whitelisted(k)})

\* C13, as stated: a flagged Duo two-factor credential with id X has the
\* whitelist key "duo:two_factor:X", and with that key in the whitelist the
\* executor passes it over.
C13_TwoFactorKeySkips ==
    Executing =>
        \A k \in 1..Len(inactives) :
            LET c == credentials[inactives[k].credential]
            IN  (/\ k < next_ic
                 /\ is_duo(c) /\ is_two_fa(c)
                 /\ ("duo:two_factor:" \o c.id) \in config.whitelist)
                    => /\ whitelist_key(c) = "duo:two_factor:" \o c.id
                       /\ CallsOf(k) = {} /\ LinesOf(k) = {}

\* C13, amended: the whitelist key is "{service}:{kind}:{id}" with service aws or
\* duo and kind api_key, password or tfa, so a Duo two-factor credential with id
\* X has the key "duo:tfa:X"; with that key in the whitelist the executor passes
\* the credential over.
C13_TfaKeySkips ==
    /\ \A i \in 1..Len(credentials) : whitelist_key(credentials[i]) = KeyOf(credentials[i])
    /\ Executing =>
          \A k \in 1..Len(inactives) :
              LET c == credentials[inactives[k].credential]
              IN  (is_duo(c) /\ is_two_fa(c) /\ ("duo:tfa:" \o c.id) \in config.whitelist)
                      => CallsOf(k) = {} /\ LinesOf(k) = {}

C13_Witness ==
    /\ pc = "returned"
    /\ \E k \in 1..Len(inactives) :
          LET c == credentials[inactives[k].credential]
          IN  /\ is_duo(c) /\ is_two_fa(c)
              /\ whitelist_key(c) = "duo:tfa:DU1"
              /\ whitelist_key(c) \in config.whitelist
              /\ CallsOf(k) = {} /\ LinesOf(k) = {}

\* The operation the table gives (service, kind, action).
Operation(service, kind, action) ==
    CASE service = "Aws" /\ kind = "ApiKey" /\ action = "Disable" -> "iam::disable_access_key"
      [] service = "Aws" /\ kind = "ApiKey" /\ action = "Delete" -> "iam::delete_access_key"
      [] service = "Aws" /\ kind = "Password" /\ action = "Disable" -> "iam::disable_user"
      [] service = "Aws" /\ kind = "Password" /\ action = "Delete" -> "iam::delete_user"
      [] service = "Duo" /\ kind = "TwoFA" /\ action = "Disable" -> "duo.disable_user"
      [] service = "Duo" /\ kind = "TwoFA" /\ action = "Delete" -> "duo.delete_user"
      [] OTHER -> "none"

\* C14: in apply mode every flagged credential the executor has passed and not
\* skipped has had exactly the operation of the (service, kind, action) table
\* issued, its action being the resolved one; a Disable is never issued as a
\* Delete nor a Delete as a Disable.
C14_OperationOfTable ==
    (Executing /\ config.actions_enabled) =>
        /\ \A n \in 1..Len(calls) :
              LET ic == inactives[calls[n].ic]
                  c == credentials[ic.credential]
              IN  calls[n].api = Operation(c.service, c.kind, ic.action)
        /\ \A k \in 1..Len(inactives) :
              (k < next_ic /\ ~Whitelisted(k))
                  => \E n \in 1..Len(calls) :
                        /\ calls[n].ic = k
                        /\ calls[n].api
                               = Operation(credentials[inactives[k].credential].service,
                                           credentials[inactives[k].credential].kind,
                                           inactives[k].action)

C14_Witness ==
    /\ pc = "returned"
    /\ \E n \in 1..Len(calls), m \in 1..Len(calls) :
          /\ calls[n].api = "iam::delete_access_key"
          /\ inactives[calls[n].ic].action = Delete
          /\ calls[m].api = "iam::disable_user"
          /\ inactives[calls[m].ic].action = Disable

\* C19: a call for an Aws credential is an IAM operation and a call for a Duo
\* credential a Duo operation, and every call names the credential it is issued
\* for: the key id and user name for an access key, the user name for an IAM
\* user, the user id for a Duo user.
C19_ScopedToService ==
    \A n \in 1..Len(calls) :
        LET c == credentials[inactives[calls[n].ic].credential]
        IN  /\ c.service = "Aws"
                  => calls[n].api \in {"iam::disable_access_key", "iam::delete_access_key",
                                       "iam::disable_user", "iam::delete_user"}
            /\ c.service = "Duo" => calls[n].api \in {"duo.disable_user", "duo.delete_user"}
            /\ calls[n].api \in {"iam::disable_access_key", "iam::delete_access_key"}
                  => calls[n].args = <<c.id, c.user_name>>
            /\ calls[n].api \in {"iam::disable_user", "iam::delete_user"}
                  => calls[n].args = <<c.user_name>>
            /\ calls[n].api \in {"duo.disable_user", "duo.delete_user"}
                  => calls[n].args = <<c.id>>

C19_Witness ==
    /\ pc = "returned"
    /\ \E n \in 1..Len(calls), m \in 1..Len(calls) :
          /\ credentials[inactives[calls[n].ic].credential].service = "Duo"
          /\ calls[n].args = <<"DU1">>
          /\ credentials[inactives[calls[m].ic].credential].service = "Aws"
          /\ calls[m].args = <<"AKIA1", "iam-user-1">>

\* C15: in apply mode every provider call changes exactly one counter by one,
\* failed when the call failed, disabled or deleted by the entry's action when
\* it succeeded; total and kept are not changed, and no counter changes in the
\* executor loop without a call.
C15_OneCounterPerExecution ==
    [][pc = "executing" =>
          /\ stats'.total = stats.total
          /\ stats'.kept = stats.kept
          /\ IF calls' = calls THEN stats' = stats
             ELSE LET e == calls'[Len(calls')]
                      action == inactives[e.ic].action
                  IN  /\ calls' = Append(calls, e)
                      /\ e.ic = next_ic
                      /\ ~Whitelisted(e.ic)
                      /\ stats' = IF ~e.ok THEN [stats EXCEPT !.failed = @ + 1]
                                  ELSE IF action = Disable
                                       THEN [stats EXCEPT !.disabled = @ + 1]
                                  ELSE [stats EXCEPT !.deleted = @ + 1]
                      /\ action \in {Disable, Delete}]_vars

\* Three flagged credentials, the call of one fails and the two others are
\* counted as disabled or deleted.
C15_Witness ==
    /\ pc = "returned"
    /\ Len(calls) = 3
    /\ stats.failed = 1
    /\ stats.disabled + stats.deleted = 2
    /\ stats.disabled >= 1

\* C16: in apply mode, whatever calls fail, no flagged credential is attempted
\* twice, every non-whitelisted one the executor has passed was attempted once,
\* the executor can always take its next step, and a run ends failed or
\* panicked only before the first call, so the executor's only end is Ok(stats)
\* with every non-whitelisted flagged credential attempted exactly once.
C16_FailureNeitherAbortsNorRetries ==
    /\ (Executing /\ config.actions_enabled) =>
          \A k \in 1..Len(inactives) :
              /\ Cardinality(CallsOf(k)) <= 1
              /\ (~Whitelisted(k) /\ (k < next_ic \/ pc = "returned"))
                     => Cardinality(CallsOf(k)) = 1
    /\ pc = "executing" => ENABLED (SkipWhitelisted \/ Apply \/ DryRun \/ Return)
    /\ pc \in {"failed", "panicked"} => calls = <<>>

\* A call fails and a later credential is still attempted.
C16_Witness ==
    /\ pc = "returned"
    /\ config.actions_enabled
    /\ \E n \in 1..Len(calls), m \in 1..Len(calls) :
          n < m /\ ~calls[n].ok /\ calls[m].ic > calls[n].ic
    /\ \A k \in 1..Len(inactives) : ~Whitelisted(k) => Cardinality(CallsOf(k)) = 1

\* C17: with actions_enabled = false no provider call is made, in any state of
\* any run.
C17_DryRunMakesNoCall ==
    ~config.actions_enabled => calls = <<>>

C17_Witness ==
    /\ pc = "returned"
    /\ ~config.actions_enabled
    /\ calls = <<>>
    /\ \E n \in 1..Len(dry_log), m \in 1..Len(dry_log) :
          /\ inactives[dry_log[n].ic].action = Disable
          /\ inactives[dry_log[m].ic].action = Delete

\* C18: after a dry run disabled is the number of non-whitelisted flagged
\* credentials with action Disable and deleted the number with action Delete.
C18_DryRunCounts ==
    (pc = "returned" /\ ~config.actions_enabled) =>
        /\ stats.disabled
               = Cardinality({k \in 1..Len(inactives) :
                                 ~Whitelisted(k) /\ inactives[k].action = Disable})
        /\ stats.deleted
               = Cardinality({k \in 1..Len(inactives) :
                                 ~Whitelisted(k) /\ inactives[k].action = Delete})

\* Some ListAccessKeys or GetAccessKeyLastUsed call of the run fails.
DataError ==
    \/ \E u \in 1..Len(iam_users) : ~iam_users[u].list_keys_ok
    \/ \E j \in 1..Len(access_keys) : ~access_keys[j].lookup.ok

\* C20: a run in which listing a user's keys or looking up a key's last use
\* failed goes no further than reading the sources: nothing is classified, no
\* provider action is taken or logged, and no statistics are returned.
C20_DataErrorsFatal ==
    DataError =>
        /\ pc \notin {"loaded", "emitted", "executing", "returned"}
        /\ inactives = <<>>
        /\ calls = <<>>
        /\ dry_log = <<>>

\* The run has read both credential sources.
Loaded == pc \in {"loaded", "emitted", "failed", "executing", "returned"}

\* The access keys whose look-up answered without a last-used record, listed
\* for their user.
KeysWithoutRecord ==
    {j \in 1..Len(access_keys) :
        /\ access_keys[j].lookup.ok
        /\ access_keys[j].lookup.last_used_date = None
        /\ \E u \in 1..Len(iam_users) :
              iam_users[u].user_id = access_keys[j].user_id /\ iam_users[u].list_keys_ok}

\* C21: an access key without a last-used record is in the batch as an ApiKey
\* Credential with last_used = None, is classified Keep and is counted in total.
C21_KeyWithoutRecordInBatch ==
    Loaded =>
        \A j \in KeysWithoutRecord :
            /\ \E i \in 1..Len(credentials) :
                  /\ is_aws(credentials[i]) /\ is_api_key(credentials[i])
                  /\ credentials[i].id = access_keys[j].access_key_id
                  /\ credentials[i].last_used = None
                  /\ Own(i) = Keep
            /\ pc = "returned" => stats.total = Len(duo_users) + Len(iam_users) + Len(access_keys)

C23_IsExhausted ==
    pc = "exhausted" =>
        LET low == /\ burst_balance.balance # None
                   /\ burst_balance.balance[1] <= burst_config.burst_balance_limit
            soon == /\ burst_balance.forecast # None
                    /\ burst_balance.forecast[1] - Now
                           < (burst_config.eta_limit_min + 1) * TicksPerMinute
        IN  /\ exhausted <=> (low \/ (burst_config.use_linear_regression /\ soon))
            /\ ~burst_config.use_linear_regression => (exhausted <=> low)
            /\ (burst_balance.balance = None /\ burst_balance.forecast = None) => ~exhausted

\* The forecast alone exhausts a volume: the balance is above its limit and the
\* forecast is a part of a minute past eta_limit_min.
C23_Witness ==
    /\ pc = "exhausted"
    /\ exhausted
    /\ burst_config.use_linear_regression
    /\ burst_balance.balance # None
    /\ burst_balance.balance[1] > burst_config.burst_balance_limit
    /\ burst_balance.forecast # None
    /\ burst_balance.forecast[1] - Now > burst_config.eta_limit_min * TicksPerMinute

\* C24: every AWS Password whose combination of own and linked action is not
\* Keep is emitted with that action, whatever Passwords come before it in the
\* batch.
C24_EveryPasswordResolved ==
    (Identified /\ WellFormed) =>
        \A p \in Passwords :
            LET resolved == match_action(Own(p), LinkedAction(p))
            IN  resolved # "break"
                    => \E k \in Entries(p) : inactives[k].action = resolved

\* C25: the linked action read for a Password with linked keys is the least
\* severe classification among the credentials whose linked_id is its id.
C25_BestLinkedAction ==
    (Identified /\ WellFormed) =>
        \A p \in Passwords :
            LinkedKeys(p) # {}
                => \E k \in LinkedKeys(p) :
                      /\ LinkedAction(p) = Some(Own(k))
                      /\ \A j \in LinkedKeys(p) : Severity(Own(k)) <= Severity(Own(j))

\* C26: after a run total is the size of the batch, kept is total less the
\* flagged credentials, the counters add up to at most total, and they add up
\* to total exactly when nothing is flagged, or actions are enabled and no
\* flagged credential is whitelisted.
C26_StatisticsAddUp ==
    pc = "returned" =>
        LET sum == stats.kept + stats.disabled + stats.deleted + stats.failed
        IN  /\ stats.total = Len(credentials)
            /\ stats.kept = stats.total - Len(inactives)
            /\ sum <= stats.total
            /\ sum = stats.total
                   <=> \/ inactives = <<>>
                       \/ /\ config.actions_enabled
                          /\ \A k \in 1..Len(inactives) : ~Whitelisted(k)

\* An apply run with a flagged credential executed and another whitelisted:
\* the counters add up to less than total.
C26_Witness ==
    /\ pc = "returned"
    /\ config.actions_enabled
    /\ calls # <<>>
    /\ \E k \in 1..Len(inactives) : Whitelisted(k)
    /\ stats.kept + stats.disabled + stats.deleted + stats.failed = stats.total - 1

\* Duo credentials are executed first, AWS ApiKeys second, AWS Passwords last.
Group(c) == IF is_duo(c) THEN 1 ELSE IF is_api_key(c) THEN 2 ELSE 3

\* Entry k of the flagged set is executed before entry l.
InOrder(k, l) ==
    LET a == inactives[k].credential
        b == inactives[l].credential
    IN  \/ Group(credentials[a]) < Group(credentials[b])
        \/ Group(credentials[a]) = Group(credentials[b]) /\ a < b

\* C27: the provider calls and would-have lines of a run come Duo credentials
\* first, then AWS ApiKeys, then AWS Passwords, each group in batch order; the
\* operation on an IAM user comes after the operations on every flagged,
\* non-whitelisted access key of that user.
C27_ExecutionOrder ==
    Executing =>
        /\ \A n \in 1..Len(calls), m \in 1..Len(calls) :
              n < m => InOrder(calls[n].ic, calls[m].ic)
        /\ \A n \in 1..Len(dry_log), m \in 1..Len(dry_log) :
              n < m => InOrder(dry_log[n].ic, dry_log[m].ic)
        /\ \A m \in 1..Len(calls) :
              LET p == inactives[calls[m].ic].credential
              IN  is_password(credentials[p])
                      => \A k \in 1..Len(inactives) :
                            (/\ inactives[k].credential \in LinkedKeys(p)
                             /\ ~Whitelisted(k))
                                => \E n \in 1..Len(calls) : n < m /\ calls[n].ic = k

\* A user's key, later in the batch than the user's password, is executed
\* before it, after a Duo credential.
C27_Witness ==
    /\ pc = "returned"
    /\ Len(calls) = 3
    /\ is_duo(credentials[inactives[calls[1].ic].credential])
    /\ is_api_key(credentials[inactives[calls[2].ic].credential])
    /\ is_password(credentials[inactives[calls[3].ic].credential])
    /\ inactives[calls[2].ic].credential \in LinkedKeys(inactives[calls[3].ic].credential)
    /\ inactives[calls[3].ic].credential < inactives[calls[2].ic].credential

\* The batch with every credential's state field blanked.
Stateless(creds) == [i \in 1..Len(creds) |-> [creds[i] EXCEPT !.state = "Unknown"]]

\* C28: the flagged set, its actions and the provider operations of a run are
\* those of the batch with every state field blanked, so two batches that
\* differ only in states give the same; a Duo user or access key in state
\* Disabled that classifies Disable is flagged Disable, has the disable
\* operation issued when the executor reaches it, and is counted in disabled
\* when the call succeeds.
C28_StateIndependent ==
    Executing =>
        /\ inactives = identify_inactive(Stateless(credentials), InactiveSpec(config))
        /\ \A n \in 1..Len(calls) :
              LET ic == inactives[calls[n].ic]
              IN  Some([api |-> calls[n].api, args |-> calls[n].args])
                      = apply_call(Stateless(credentials)[ic.credential], ic.action)
        /\ \A i \in TwoFAs \cup ApiKeys :
              (credentials[i].state = "Disabled" /\ Own(i) = Disable)
                  => \E k \in Entries(i) :
                        /\ inactives[k].action = Disable
                        /\ (k < next_ic /\ config.actions_enabled /\ ~Whitelisted(k))
                               => \E n \in CallsOf(k) :
                                     calls[n].api \in {"duo.disable_user",
                                                       "iam::disable_access_key"}
        /\ config.actions_enabled
              => stats.disabled
                     = Cardinality({n \in 1..Len(calls) :
                                       calls[n].ok /\ inactives[calls[n].ic].action = Disable})

\* An access key already Inactive is disabled again and counted.
C28_Witness ==
    /\ pc = "returned"
    /\ stats.disabled = 1
    /\ \E n \in 1..Len(calls) :
          /\ calls[n].ok
          /\ calls[n].api = "iam::disable_access_key"
          /\ credentials[inactives[calls[n].ic].credential].state = "Disabled"

\* C29: a run whose metric emit failed has ended with the error: nothing is
\* classified, no provider call is made or logged, no statistics exist, and the
\* run takes no further step.
C29_EmitFailureEndsRun ==
    pc = "failed" =>
        /\ credentials # <<>>
        /\ inactives = <<>>
        /\ calls = <<>>
        /\ dry_log = <<>>
        /\ stats = NoStats
        /\ ~ENABLED Next

\* The emit fails in an apply run whose batch holds a credential that
\* classifies Delete.
C29_Witness ==
    /\ pc = "failed"
    /\ config.actions_enabled
    /\ \E i \in 1..Len(credentials) : Own(i) = Delete

\* C30: under delete_threshold_days <= disable_threshold_days no credential is
\* classified Disable: one unused for more than delete_threshold_days whole days
\* is classified Delete and every other Keep.
C30_NoDisableStage ==
    (pc = "classified" /\ config.delete_threshold_days <= config.disable_threshold_days) =>
        \A i \in 1..Len(credentials) :
            /\ classified[i] # Disable
            /\ classified[i]
                   = IF /\ credentials[i].last_used # None
                        /\ WholeDays(Now - credentials[i].last_used[1])
                               > config.delete_threshold_days
                     THEN Delete ELSE Keep

\* A credential between the two thresholds is deleted, one at the delete
\* threshold kept.
C30_Witness ==
    /\ pc = "classified"
    /\ config.delete_threshold_days < config.disable_threshold_days
    /\ credentials[1].last_used # None
    /\ credentials[2].last_used # None
    /\ WholeDays(Now - credentials[1].last_used[1]) = config.disable_threshold_days
    /\ classified[1] = Delete
    /\ WholeDays(Now - credentials[2].last_used[1]) = config.delete_threshold_days
    /\ classified[2] = Keep

====
